---- MODULE Spec2Model ----
(***************************************************************************)
(* ChatGPT3TelegramBot (src/telegram_bot.py): access policy, handler       *)
(* dispatch and the voice/audio transcription pipeline.                    *)
(*                                                                         *)
(* Every update is handled by one coroutine ("task").  A task gives up the *)
(* interpreter only at an `await`; a call that is not awaited              *)
(* (the openai helper, AudioSegment) runs to completion on the event-loop   *)
(* thread.  A pc value names the external call a task is currently inside; *)
(* the action "<Call>Return" is the call's completion (normal or raising)  *)
(* followed by the handler's code up to its next external call.            *)
(***************************************************************************)
EXTENDS Naturals, Sequences, FiniteSets, TLC

\* ------------------------------------------------------------- bounds
MaxCfgLen == 3

Tasks == {1, 2}

\* characters an allowed_user_ids setting is made of (besides the wildcard)
CfgAlphabet == {"1", ","}
SenderIds == {1, 2, 11}
Fids == {"a", "b"}

RECURSIVE StringsUpTo(_)
StringsUpTo(n) ==
  IF n = 0 THEN {<<>>}
  ELSE LET S == StringsUpTo(n - 1)
       IN  S \cup {Append(s, c) : s \in {r \in S : Len(r) = n - 1}, c \in CfgAlphabet}

Wildcard == <<"*">>
Configs == {Wildcard} \cup StringsUpTo(MaxCfgLen)
ConcurrentConfigs == {Wildcard, <<"1">>}

Chats ==
  { [id |-> 1, type |-> "private"],
    [id |-> 2, type |-> "group"],
    [id |-> 3, type |-> "supergroup"] }

ConcurrentChats == {c \in Chats : c.id \in {1, 2}}

\* message.text as a sequence of tokens; <<>> is a message without text
Texts ==
  { <<"/help">>, <<"/start">>, <<"/reset">>,
    <<"/image">>, <<"/image", " ">>, <<"/image", " ", "cat">>,
    <<"/image", "@bot", " ">>,
    <<"/foo">>, <<"hello">> }

Messages ==
  { [text |-> x, voice |-> "", audio |-> ""] : x \in Texts }
    \cup { [text |-> <<>>, voice |-> f, audio |-> ""] : f \in Fids }
    \cup { [text |-> <<>>, voice |-> "", audio |-> f] : f \in Fids }

NoUpdate == [sender |-> 0, chat |-> [id |-> 0, type |-> "none"], mid |-> 0,
             msg |-> [text |-> <<>>, voice |-> "", audio |-> ""]]

Updates(t) ==
  { [sender |-> s, chat |-> c, mid |-> 100 + t, msg |-> m] :
      s \in SenderIds, c \in Chats, m \in Messages }

\* ------------------------------------------------------ pure helpers
Digit(d) == CASE d = 0 -> "0" [] d = 1 -> "1" [] d = 2 -> "2" [] d = 3 -> "3"
              [] d = 4 -> "4" [] d = 5 -> "5" [] d = 6 -> "6" [] d = 7 -> "7"
              [] d = 8 -> "8" [] d = 9 -> "9"

\* str(update.message.from_user.id), as a sequence of characters
RECURSIVE Str(_)
Str(n) == IF n < 10 THEN <<Digit(n)>> ELSE Append(Str(n \div 10), Digit(n % 10))

\* s.split(','), on a sequence of characters: always at least one element
RECURSIVE Split(_)
Split(s) ==
  IF s = <<>> THEN << <<>> >>
  ELSE LET rest == Split(Tail(s))
       IN  IF Head(s) = ","
           THEN << <<>> >> \o rest
           ELSE << <<Head(s)>> \o Head(rest) >> \o Tail(rest)

\* a sequence of characters as one string
RECURSIVE Join(_)
Join(s) == IF s = <<>> THEN "" ELSE Head(s) \o Join(Tail(s))

InSeq(x, s) == \E i \in 1..Len(s) : s[i] = x

is_group_chat(u) == u.chat.type \in {"group", "supergroup"}

MemberStatuses == {"creator", "administrator", "member", "restricted", "left", "kicked"}

\* (mutant) 'left' taken for a member status
IsMemberStatusLeft(status) == status \in {"administrator", "member", "creator", "left"}

\* is_user_in_group: member.status in ['administrator', 'member', 'creator']
IsMemberStatus(status) == status \in {"administrator", "member", "creator"}

disallowed_message ==
  "Sorry, you are not allowed to use this bot. You can check out the source code at "
    \o "https://github.com/n3d1117/chatgpt-telegram-bot"

help_text ==
  "/reset - Reset conversation\n/image <prompt> - Generate image\n/help - Help menu\n\n"
    \o "Open source at https://github.com/n3d1117/chatgpt-telegram-bot"

\* str(e) of the exception an external call raises
ErrText(call) == call \o " failed"

\* (mutant) one fixed working name instead of the attachment's unique id
filenameFixed(m) == "voice"

filename(m) == IF m.voice # "" THEN m.voice ELSE m.audio
filename_ogg(m) == filename(m) \o ".ogg"
filename_mp3(m) == filename(m) \o ".mp3"

\* update.message.text.replace('/image', '').strip()
RECURSIVE RemoveToken(_, _)
RemoveToken(s, tok) ==
  IF s = <<>> THEN <<>>
  ELSE IF Head(s) = tok THEN RemoveToken(Tail(s), tok)
       ELSE <<Head(s)>> \o RemoveToken(Tail(s), tok)

RECURSIVE LStrip(_)
LStrip(s) == IF s # <<>> /\ Head(s) = " " THEN LStrip(Tail(s)) ELSE s

RECURSIVE RStrip(_)
RStrip(s) ==
  IF s # <<>> /\ s[Len(s)] = " " THEN RStrip(SubSeq(s, 1, Len(s) - 1)) ELSE s

Strip(s) == RStrip(LStrip(s))

image_query(m) == Strip(RemoveToken(m.text, "/image"))

\* ---------------------------------------------------------- dispatch
\* Handlers registered by run(), in registration order; the first whose
\* filter accepts the message handles it.
IsCommand(m) ==
  m.text # <<>> /\ m.text[1] \in {"/help", "/start", "/reset", "/image", "/foo"}

CommandOf(m) ==
  CASE m.text[1] = "/help"  -> "help"
    [] m.text[1] = "/start" -> "start"
    [] m.text[1] = "/reset" -> "reset"
    [] m.text[1] = "/image" -> "image"
    [] OTHER -> "foo"

Registered ==
  << [filter |-> "reset", callback |-> "reset"],
     [filter |-> "help",  callback |-> "help"],
     [filter |-> "image", callback |-> "image"],
     [filter |-> "start", callback |-> "help"],
     [filter |-> "VOICE|AUDIO", callback |-> "transcribe"],
     [filter |-> "TEXT&~COMMAND", callback |-> "prompt"] >>

\* (mutant) the text handler registered with filters.TEXT alone
AcceptsAnyText(f, m) ==
  CASE f = "VOICE|AUDIO"   -> m.voice # "" \/ m.audio # ""
    [] f = "TEXT&~COMMAND" -> m.text # <<>>
    [] OTHER               -> IsCommand(m) /\ CommandOf(m) = f

Accepts(f, m) ==
  CASE f = "VOICE|AUDIO"   -> m.voice # "" \/ m.audio # ""
    [] f = "TEXT&~COMMAND" -> m.text # <<>> /\ ~IsCommand(m)
    [] OTHER               -> IsCommand(m) /\ CommandOf(m) = f

Matching(m) == {i \in 1..Len(Registered) : Accepts(Registered[i].filter, m)}

Route(m) ==
  IF Matching(m) = {} THEN "none"
  ELSE Registered[CHOOSE i \in Matching(m) : \A j \in Matching(m) : i <= j].callback


\* -------------------------------------------------------------- state
VARIABLES
  config,   \* self.config['allowed_user_ids'], a sequence of characters
  ev,       \* ev[t]: the update task t handles (NoUpdate: none delivered)
  handler,  \* handler[t]: the callback the application dispatched t to
  pc,       \* pc[t]: the external call task t is inside, or where it ended
  idx,      \* idx[t]: position of is_allowed's loop in allowed_user_ids
  err,      \* err[t]: str(e) of the exception caught by the except clause
  log,      \* log[t]: the external calls t has completed, in order
  files,    \* local storage: <<path, task that wrote it>>
  history   \* history[c]: exchanges the openai helper keeps for chat id c

vars == <<config, ev, handler, pc, idx, err, log, files, history>>

ChatIds == {c.id : c \in Chats}

\* OpenAIHelper.reset_chat_history(chat_id): the conversation of chat_id is
\* cleared, no other one is touched
HistoryReset(h, chat_id) == [h EXCEPT ![chat_id] = 0]

\* OpenAIHelper.get_chat_response(chat_id, query): one more exchange is kept
\* for chat_id
HistoryAppend(h, chat_id) == [h EXCEPT ![chat_id] = @ + 1]

\* Calls made without await: the event-loop thread stays inside them.
SyncCalls ==
  {"reset_chat_history", "generate_image", "from_ogg", "export",
   "openai_transcribe", "get_chat_response"}

\* Awaited calls: the task is suspended and the loop runs other tasks.
AwaitedCalls ==
  {"get_member", "send_disallowed", "help_reply", "send_done",
   "send_need_prompt", "image_chat_action", "send_photo", "send_image_failed",
   "send_unsupported", "transcribe_chat_action", "get_file", "download",
   "send_transcript", "send_transcribe_failed",
   "prompt_chat_action", "send_response"}

Ended == {"done", "raised", "unhandled"}

\* The loop thread is inside a synchronous call of another task.
Blocked(t) == \E u \in Tasks \ {t} : pc[u] \in SyncCalls

At(t, call) == pc[t] = call /\ ~Blocked(t)

Ent(op, arg, chat, reply, opt, res, who) ==
  [op |-> op, arg |-> arg, chat |-> chat, reply |-> reply, opt |-> opt,
   res |-> res, who |-> who]

\* one completed call of the transport or the backend
Call(op, arg, res) == Ent(op, arg, 0, 0, "", res, 0)
\* a message / photo / chat action sent to a chat
Send(t, op, arg, reply, opt, res) ==
  Ent(op, arg, ev[t].chat.id, IF reply THEN ev[t].mid ELSE 0, opt, res, 0)
\* an operation on a file of local storage last written by task `who` (0: no file)
FileOp(op, path, res, who) == Ent(op, path, 0, 0, "", res, who)

Exists(path) == \E f \in files : f[1] = path
Writer(path) == IF Exists(path) THEN (CHOOSE f \in files : f[1] = path)[2] ELSE 0
Written(fs, path, t) == {f \in fs : f[1] # path} \cup {<<path, t>>}
Removed(fs, path) == {f \in fs : f[1] # path}

Goto(t, call, entries) ==
  /\ pc' = [pc EXCEPT ![t] = call]
  /\ log' = [log EXCEPT ![t] = @ \o entries]

\* An exception leaves the handler: the application passes it to error_handler.
Raise(t, entries, e) ==
  Goto(t, "raised", entries \o <<Call("error_handler", e, "ok")>>)

\* ------------------------------------------------------- is_allowed
allowed_user_ids == Split(config)

\* (mutant) the sender's id compared with the whole setting, not its elements
IsAllowedStartNoSplit(u) ==
  IF config = Wildcard THEN "True"
  ELSE IF Str(u.sender) = config THEN "True"
  ELSE IF is_group_chat(u) THEN "scan"
  ELSE "False"

\* (mutant) no wildcard test
IsAllowedStartNoWildcard(u) ==
  IF InSeq(Str(u.sender), allowed_user_ids) THEN "True"
  ELSE IF is_group_chat(u) THEN "scan"
  ELSE "False"

\* is_allowed up to its first membership query
IsAllowedStart(u) ==
  IF config = Wildcard THEN "True"
  ELSE IF InSeq(Str(u.sender), allowed_user_ids) THEN "True"
  ELSE IF is_group_chat(u) THEN "scan"
  ELSE "False"

\* (mutant) transcribe without its test for a voice or audio attachment
FirstCallNoKindTest(h, m) ==
  CASE h = "reset" -> "reset_chat_history"
    [] h = "image" ->
         IF image_query(m) = <<>> THEN "send_need_prompt" ELSE "image_chat_action"
    [] h = "transcribe" -> "transcribe_chat_action"
    [] h = "prompt" -> "prompt_chat_action"

\* the first external call of a handler once is_allowed returned True
FirstCall(h, m) ==
  CASE h = "reset" -> "reset_chat_history"
    [] h = "image" ->
         IF image_query(m) = <<>> THEN "send_need_prompt" ELSE "image_chat_action"
    [] h = "transcribe" ->
         IF m.voice = "" /\ m.audio = "" THEN "send_unsupported"
         ELSE "transcribe_chat_action"
    [] h = "prompt" -> "prompt_chat_action"

\* is_allowed returned `allowed` to handler h of task t
Gate(t, h, allowed, entries) ==
  IF allowed
  THEN Goto(t, FirstCall(h, ev[t].msg), entries \o <<Call("is_allowed", "", "True")>>)
  ELSE Goto(t, "send_disallowed", entries \o <<Call("is_allowed", "", "False")>>)

\* ------------------------------------------------------------ actions
\* (mutant) reset without the is_allowed test, like help
EnterResetUngated(t, h) ==
  /\ handler' = [handler EXCEPT ![t] = h]
  /\ CASE h = "none" -> Goto(t, "unhandled", <<>>) /\ UNCHANGED idx
       [] h = "help" -> Goto(t, "help_reply", <<>>) /\ UNCHANGED idx
       [] h = "reset" -> Goto(t, "reset_chat_history", <<>>) /\ UNCHANGED idx
       [] OTHER ->
            IF IsAllowedStart(ev[t]) = "scan"
            THEN Goto(t, "get_member", <<>>) /\ idx' = [idx EXCEPT ![t] = 1]
            ELSE Gate(t, h, IsAllowedStart(ev[t]) = "True", <<>>) /\ UNCHANGED idx
  /\ UNCHANGED <<history, config, ev, err, files>>

\* Handler h is called with task t's update and runs to its first external call.
Enter(t, h) ==
  /\ handler' = [handler EXCEPT ![t] = h]
  /\ CASE h = "none" -> Goto(t, "unhandled", <<>>) /\ UNCHANGED idx
       [] h = "help" -> Goto(t, "help_reply", <<>>) /\ UNCHANGED idx
       [] OTHER ->
            IF IsAllowedStart(ev[t]) = "scan"
            THEN Goto(t, "get_member", <<>>) /\ idx' = [idx EXCEPT ![t] = 1]
            ELSE Gate(t, h, IsAllowedStart(ev[t]) = "True", <<>>) /\ UNCHANGED idx
  /\ UNCHANGED <<history, config, ev, err, files>>

\* The application built by run() dispatches the update.
Start(t) ==
  /\ At(t, "queued")
  /\ Enter(t, Route(ev[t].msg))

\* transcribe is called with an update its filter would not have accepted.
InvokeTranscribe(t) ==
  /\ At(t, "queued")
  /\ Route(ev[t].msg) # "transcribe"
  /\ Enter(t, "transcribe")

\* (mutant) the loop does not return at the first member found
GetMemberReturnNoShortCircuit(t) ==
  /\ At(t, "get_member")
  /\ LET user == Join(allowed_user_ids[idx[t]])
     IN  \/ \E status \in MemberStatuses :
              IF idx[t] < Len(allowed_user_ids)
              THEN /\ Goto(t, "get_member", <<Call("get_member", user, status)>>)
                   /\ idx' = [idx EXCEPT ![t] = @ + 1]
              ELSE Gate(t, handler[t], IsMemberStatus(status),
                        <<Call("get_member", user, status)>>)
                   /\ UNCHANGED idx
         \/ /\ Raise(t, <<Call("get_member", user, "raise"),
                          Call("is_allowed", "", "raise")>>, ErrText("get_member"))
            /\ UNCHANGED idx
  /\ UNCHANGED <<history, config, ev, handler, err, files>>

\* update.effective_chat.get_member(user) answers or raises (is_user_in_group)
GetMemberReturn(t) ==
  /\ At(t, "get_member")
  /\ LET user == Join(allowed_user_ids[idx[t]])
     IN  \/ \E status \in MemberStatuses :
              IF IsMemberStatus(status)
              THEN Gate(t, handler[t], TRUE, <<Call("get_member", user, status)>>)
                   /\ UNCHANGED idx
              ELSE IF idx[t] < Len(allowed_user_ids)
                   THEN /\ Goto(t, "get_member", <<Call("get_member", user, status)>>)
                        /\ idx' = [idx EXCEPT ![t] = @ + 1]
                   ELSE Gate(t, handler[t], FALSE, <<Call("get_member", user, status)>>)
                        /\ UNCHANGED idx
         \/ /\ Raise(t, <<Call("get_member", user, "raise"),
                          Call("is_allowed", "", "raise")>>, ErrText("get_member"))
            /\ UNCHANGED idx
  /\ UNCHANGED <<history, config, ev, handler, err, files>>

\* (mutant) no return after send_disallowed_message: the handler goes on
SendDisallowedReturnFallThrough(t) ==
  /\ At(t, "send_disallowed")
  /\ \/ Goto(t, FirstCall(handler[t], ev[t].msg),
             <<Send(t, "send_message", disallowed_message, FALSE, "no_preview", "ok")>>)
     \/ Raise(t, <<Send(t, "send_message", disallowed_message, FALSE, "no_preview", "raise")>>,
              ErrText("send_message"))
  /\ UNCHANGED <<history, config, ev, handler, idx, err, files>>

\* send_disallowed_message
SendDisallowedReturn(t) ==
  /\ At(t, "send_disallowed")
  /\ \/ Goto(t, "done",
             <<Send(t, "send_message", disallowed_message, FALSE, "no_preview", "ok")>>)
     \/ Raise(t, <<Send(t, "send_message", disallowed_message, FALSE, "no_preview", "raise")>>,
              ErrText("send_message"))
  /\ UNCHANGED <<history, config, ev, handler, idx, err, files>>

\* help: update.message.reply_text(...), which quotes the message in group chats
HelpReplyReturn(t) ==
  /\ At(t, "help_reply")
  /\ \/ Goto(t, "done", <<Send(t, "reply_text", help_text, is_group_chat(ev[t]),
                             "no_preview", "ok")>>)
     \/ Raise(t, <<Send(t, "reply_text", help_text, is_group_chat(ev[t]),
                         "no_preview", "raise")>>,
              ErrText("reply_text"))
  /\ UNCHANGED <<history, config, ev, handler, idx, err, files>>


\* (mutant) the conversation keyed by the sender's id, not the chat's
ResetChatHistoryReturnBySender(t) ==
  /\ At(t, "reset_chat_history")
  /\ \/ /\ Goto(t, "send_done",
                <<Ent("reset_chat_history", "", ev[t].sender, 0, "", "ok", 0)>>)
        /\ history' = HistoryReset(history, ev[t].sender)
     \/ /\ Raise(t, <<Ent("reset_chat_history", "", ev[t].sender, 0, "", "raise", 0)>>,
                 ErrText("reset_chat_history"))
        /\ UNCHANGED history
  /\ UNCHANGED <<config, ev, handler, idx, err, files>>

\* reset: self.openai.reset_chat_history(chat_id=chat_id)
ResetChatHistoryReturn(t) ==
  /\ At(t, "reset_chat_history")
  /\ LET chat_id == ev[t].chat.id
     IN  \/ /\ Goto(t, "send_done",
                    <<Ent("reset_chat_history", "", chat_id, 0, "", "ok", 0)>>)
            /\ history' = HistoryReset(history, chat_id)
         \/ /\ Raise(t, <<Ent("reset_chat_history", "", chat_id, 0, "", "raise", 0)>>,
                     ErrText("reset_chat_history"))
            /\ UNCHANGED history
  /\ UNCHANGED <<config, ev, handler, idx, err, files>>

\* reset: send_message(text='Done!')
SendDoneReturn(t) ==
  /\ At(t, "send_done")
  /\ \/ Goto(t, "done", <<Send(t, "send_message", "Done!", FALSE, "", "ok")>>)
     \/ Raise(t, <<Send(t, "send_message", "Done!", FALSE, "", "raise")>>,
              ErrText("send_message"))
  /\ UNCHANGED <<history, config, ev, handler, idx, err, files>>

\* image: send_message(text='Please provide a prompt!')
SendNeedPromptReturn(t) ==
  /\ At(t, "send_need_prompt")
  /\ \/ Goto(t, "done",
             <<Send(t, "send_message", "Please provide a prompt!", FALSE, "", "ok")>>)
     \/ Raise(t, <<Send(t, "send_message", "Please provide a prompt!", FALSE, "", "raise")>>,
              ErrText("send_message"))
  /\ UNCHANGED <<history, config, ev, handler, idx, err, files>>

\* image: send_chat_action(UPLOAD_PHOTO), before the try block
ImageChatActionReturn(t) ==
  /\ At(t, "image_chat_action")
  /\ \/ Goto(t, "generate_image",
             <<Send(t, "send_chat_action", "upload_photo", FALSE, "", "ok")>>)
     \/ Raise(t, <<Send(t, "send_chat_action", "upload_photo", FALSE, "", "raise")>>,
              ErrText("send_chat_action"))
  /\ UNCHANGED <<history, config, ev, handler, idx, err, files>>

\* (mutant) the except clause only logs the exception
GenerateImageReturnLogOnly(t) ==
  /\ At(t, "generate_image")
  /\ LET q == Join(image_query(ev[t].msg))
     IN  \/ /\ Goto(t, "send_photo", <<Call("generate_image", q, "ok")>>)
            /\ UNCHANGED err
         \/ /\ Goto(t, "done", <<Call("generate_image", q, "raise")>>)
            /\ err' = [err EXCEPT ![t] = ErrText("generate_image")]
  /\ UNCHANGED <<history, config, ev, handler, idx, files>>

\* (mutant) a failed generate_image is called again
GenerateImageReturnRetry(t) ==
  /\ At(t, "generate_image")
  /\ LET q == Join(image_query(ev[t].msg))
     IN  \/ /\ Goto(t, "send_photo", <<Call("generate_image", q, "ok")>>)
            /\ UNCHANGED err
         \/ /\ Goto(t, "generate_image", <<Call("generate_image", q, "raise")>>)
            /\ err' = [err EXCEPT ![t] = ErrText("generate_image")]
  /\ UNCHANGED <<history, config, ev, handler, idx, files>>

\* image: self.openai.generate_image(prompt=image_query), inside try
GenerateImageReturn(t) ==
  /\ At(t, "generate_image")
  /\ LET q == Join(image_query(ev[t].msg))
     IN  \/ /\ Goto(t, "send_photo", <<Call("generate_image", q, "ok")>>)
            /\ UNCHANGED err
         \/ /\ Goto(t, "send_image_failed", <<Call("generate_image", q, "raise")>>)
            /\ err' = [err EXCEPT ![t] = ErrText("generate_image")]
  /\ UNCHANGED <<history, config, ev, handler, idx, files>>

\* image: send_photo(reply_to_message_id=..., photo=image_url), inside try
SendPhotoReturn(t) ==
  /\ At(t, "send_photo")
  /\ \/ /\ Goto(t, "done", <<Send(t, "send_photo", "image_url", TRUE, "", "ok")>>)
        /\ UNCHANGED err
     \/ /\ Goto(t, "send_image_failed",
                <<Send(t, "send_photo", "image_url", TRUE, "", "raise")>>)
        /\ err' = [err EXCEPT ![t] = ErrText("send_photo")]
  /\ UNCHANGED <<history, config, ev, handler, idx, files>>

\* image: the except clause's send_message('Failed to generate image: ...')
SendImageFailedReturn(t) ==
  /\ At(t, "send_image_failed")
  /\ LET text == "Failed to generate image: " \o err[t]
     IN  \/ Goto(t, "done", <<Send(t, "send_message", text, TRUE, "", "ok")>>)
         \/ Raise(t, <<Send(t, "send_message", text, TRUE, "", "raise")>>,
                  ErrText("send_message"))
  /\ UNCHANGED <<history, config, ev, handler, idx, err, files>>

\* prompt: send_chat_action(TYPING)
PromptChatActionReturn(t) ==
  /\ At(t, "prompt_chat_action")
  /\ \/ Goto(t, "get_chat_response",
             <<Send(t, "send_chat_action", "typing", FALSE, "", "ok")>>)
     \/ Raise(t, <<Send(t, "send_chat_action", "typing", FALSE, "", "raise")>>,
              ErrText("send_chat_action"))
  /\ UNCHANGED <<history, config, ev, handler, idx, err, files>>

\* prompt: self.openai.get_chat_response(chat_id, query), no try around it
GetChatResponseReturn(t) ==
  /\ At(t, "get_chat_response")
  /\ LET chat_id == ev[t].chat.id
     IN  \/ /\ Goto(t, "send_response",
                    <<Ent("get_chat_response", "", chat_id, 0, "", "ok", 0)>>)
            /\ history' = HistoryAppend(history, chat_id)
         \/ /\ Raise(t, <<Ent("get_chat_response", "", chat_id, 0, "", "raise", 0)>>,
                     ErrText("get_chat_response"))
            /\ UNCHANGED history
  /\ UNCHANGED <<config, ev, handler, idx, err, files>>

\* prompt: send_message(text=response, parse_mode=MARKDOWN)
SendResponseReturn(t) ==
  /\ At(t, "send_response")
  /\ \/ Goto(t, "done", <<Send(t, "send_message", "response", TRUE, "markdown", "ok")>>)
     \/ Raise(t, <<Send(t, "send_message", "response", TRUE, "markdown", "raise")>>,
              ErrText("send_message"))
  /\ UNCHANGED <<history, config, ev, handler, idx, err, files>>


\* transcribe: send_message(text='Unsupported file type')
SendUnsupportedReturn(t) ==
  /\ At(t, "send_unsupported")
  /\ \/ Goto(t, "done",
             <<Send(t, "send_message", "Unsupported file type", TRUE, "", "ok")>>)
     \/ Raise(t, <<Send(t, "send_message", "Unsupported file type", TRUE, "", "raise")>>,
              ErrText("send_message"))
  /\ UNCHANGED <<history, config, ev, handler, idx, err, files>>

\* transcribe: send_chat_action(TYPING), before the try block
TranscribeChatActionReturn(t) ==
  /\ At(t, "transcribe_chat_action")
  /\ \/ Goto(t, "get_file", <<Send(t, "send_chat_action", "typing", FALSE, "", "ok")>>)
     \/ Raise(t, <<Send(t, "send_chat_action", "typing", FALSE, "", "raise")>>,
              ErrText("send_chat_action"))
  /\ UNCHANGED <<history, config, ev, handler, idx, err, files>>

\* (mutant) the except clause sends nothing
FailNoReply(t, entries, call) ==
  /\ Goto(t, "done", entries)
  /\ err' = [err EXCEPT ![t] = ErrText(call)]

\* transcribe: an exception inside the try block reaches the except clause
Fail(t, entries, call) ==
  /\ Goto(t, "send_transcribe_failed", entries)
  /\ err' = [err EXCEPT ![t] = ErrText(call)]

\* transcribe: context.bot.get_file(file_id)
GetFileReturn(t) ==
  /\ At(t, "get_file")
  /\ \/ Goto(t, "download", <<Call("get_file", filename(ev[t].msg), "ok")>>)
        /\ UNCHANGED err
     \/ Fail(t, <<Call("get_file", filename(ev[t].msg), "raise")>>, "get_file")
  /\ UNCHANGED <<history, config, ev, handler, idx, files>>

\* (mutant) every attachment downloaded as .ogg
download_pathOgg(m) == filename_ogg(m)

\* where the attachment is downloaded to: a voice note as .ogg, audio as .mp3
download_path(m) == IF m.voice # "" THEN filename_ogg(m) ELSE filename_mp3(m)

\* transcribe: audio_file.download_to_drive(path); a failed download may
\* leave a partial file behind
DownloadReturn(t) ==
  /\ At(t, "download")
  /\ LET m == ev[t].msg
         path == download_path(m)
     IN  \/ /\ Goto(t, IF m.voice # "" THEN "from_ogg" ELSE "openai_transcribe",
                    <<FileOp("download", path, "ok", Writer(path))>>)
            /\ files' = Written(files, path, t)
            /\ UNCHANGED err
         \/ /\ Fail(t, <<FileOp("download", path, "raise", Writer(path))>>, "download")
            /\ \/ files' = Written(files, path, t)
               \/ UNCHANGED files
  /\ UNCHANGED <<history, config, ev, handler, idx>>

\* transcribe: AudioSegment.from_ogg(filename_ogg); the file must be there
FromOggReturn(t) ==
  /\ At(t, "from_ogg")
  /\ LET path == filename_ogg(ev[t].msg)
     IN  \/ /\ Exists(path)
            /\ Goto(t, "export", <<FileOp("from_ogg", path, "ok", Writer(path))>>)
            /\ UNCHANGED err
         \/ Fail(t, <<FileOp("from_ogg", path, "raise", Writer(path))>>, "from_ogg")
  /\ UNCHANGED <<history, config, ev, handler, idx, files>>

\* transcribe: ogg_audio.export(filename_mp3, format="mp3"); a failed export
\* may leave a partial file behind
ExportReturn(t) ==
  /\ At(t, "export")
  /\ LET path == filename_mp3(ev[t].msg)
     IN  \/ /\ Goto(t, "openai_transcribe", <<FileOp("export", path, "ok", Writer(path))>>)
            /\ files' = Written(files, path, t)
            /\ UNCHANGED err
         \/ /\ Fail(t, <<FileOp("export", path, "raise", Writer(path))>>, "export")
            /\ \/ files' = Written(files, path, t)
               \/ UNCHANGED files
  /\ UNCHANGED <<history, config, ev, handler, idx>>

\* transcribe: self.openai.transcribe(filename_mp3); the file must be there
OpenaiTranscribeReturn(t) ==
  /\ At(t, "openai_transcribe")
  /\ LET path == filename_mp3(ev[t].msg)
     IN  \/ /\ Exists(path)
            /\ Goto(t, "send_transcript", <<FileOp("transcribe", path, "ok", Writer(path))>>)
            /\ UNCHANGED err
         \/ Fail(t, <<FileOp("transcribe", path, "raise", Writer(path))>>, "transcribe")
  /\ UNCHANGED <<history, config, ev, handler, idx, files>>

\* transcribe: the finally clause, os.path.exists / os.remove on both paths
CleanupEntries(m) ==
  (IF Exists(filename_mp3(m))
   THEN <<FileOp("remove", filename_mp3(m), "ok", Writer(filename_mp3(m)))>> ELSE <<>>)
  \o
  (IF Exists(filename_ogg(m))
   THEN <<FileOp("remove", filename_ogg(m), "ok", Writer(filename_ogg(m)))>> ELSE <<>>)

\* (mutant) only the .mp3 is removed
CleanupMp3Only(m) == files' = Removed(files, filename_mp3(m))

Cleanup(m) == files' = Removed(Removed(files, filename_mp3(m)), filename_ogg(m))

\* transcribe: send_message(text=transcript, parse_mode=MARKDOWN), inside try
SendTranscriptReturn(t) ==
  /\ At(t, "send_transcript")
  /\ \/ /\ Goto(t, "done",
                <<Send(t, "send_message", "transcript", TRUE, "markdown", "ok")>>
                  \o CleanupEntries(ev[t].msg))
        /\ Cleanup(ev[t].msg)
        /\ UNCHANGED err
     \/ /\ Fail(t, <<Send(t, "send_message", "transcript", TRUE, "markdown", "raise")>>,
                "send_message")
        /\ UNCHANGED files
  /\ UNCHANGED <<history, config, ev, handler, idx>>

\* transcribe: the except clause's send_message('Failed to transcribe text: ...'),
\* then the finally clause
SendTranscribeFailedReturn(t) ==
  /\ At(t, "send_transcribe_failed")
  /\ LET text == "Failed to transcribe text: " \o err[t]
     IN  \/ Goto(t, "done", <<Send(t, "send_message", text, TRUE, "", "ok")>>
                              \o CleanupEntries(ev[t].msg))
         \/ Raise(t, <<Send(t, "send_message", text, TRUE, "", "raise")>>
                       \o CleanupEntries(ev[t].msg), ErrText("send_message"))
  /\ Cleanup(ev[t].msg)
  /\ UNCHANGED <<history, config, ev, handler, idx, err>>

\* ------------------------------------------------------ specifications
Step(t) ==
  \/ Start(t)
  \/ GetMemberReturn(t)
  \/ SendDisallowedReturn(t)
  \/ HelpReplyReturn(t)
  \/ ResetChatHistoryReturn(t)
  \/ SendDoneReturn(t)
  \/ SendNeedPromptReturn(t)
  \/ ImageChatActionReturn(t)
  \/ GenerateImageReturn(t)
  \/ SendPhotoReturn(t)
  \/ SendImageFailedReturn(t)
  \/ PromptChatActionReturn(t)
  \/ GetChatResponseReturn(t)
  \/ SendResponseReturn(t)
  \/ TranscribeChatActionReturn(t)
  \/ GetFileReturn(t)
  \/ DownloadReturn(t)
  \/ FromOggReturn(t)
  \/ ExportReturn(t)
  \/ OpenaiTranscribeReturn(t)
  \/ SendTranscriptReturn(t)
  \/ SendTranscribeFailedReturn(t)

Next == \E t \in Tasks : Step(t)

InitTasks ==
  /\ handler = [t \in Tasks |-> "none"]
  /\ pc = [t \in Tasks |-> IF ev[t] = NoUpdate THEN "idle" ELSE "queued"]
  /\ idx = [t \in Tasks |-> 0]
  /\ err = [t \in Tasks |-> ""]
  /\ log = [t \in Tasks |-> <<>>]
  /\ files = {}
  /\ history = [c \in ChatIds |-> 0]

\* One update, any configuration, sender, chat and message.
Init ==
  /\ config \in Configs
  /\ \E u \in Updates(1) : ev = [t \in Tasks |-> IF t = 1 THEN u ELSE NoUpdate]
  /\ InitTasks

Spec == Init /\ [][Next]_vars

\* Two updates in flight at once, handled as interleaved tasks: the tasks
\* switch at awaited calls only, and a task inside a call of SyncCalls keeps
\* the event-loop thread (Blocked) until that call returns.
ConcurrentUpdates(t) ==
  { [sender |-> 2, chat |-> c, mid |-> 100 + t, msg |-> m] :
      c \in ConcurrentChats, m \in Messages }

InitConcurrent ==
  /\ config \in ConcurrentConfigs
  /\ \E u1 \in ConcurrentUpdates(1), u2 \in ConcurrentUpdates(2) :
        ev = [t \in Tasks |-> IF t = 1 THEN u1 ELSE u2]
  /\ InitTasks

SpecConcurrent == InitConcurrent /\ [][Next]_vars

\* The handlers called directly, without the filters run() registers them with:
\* under Route no update without voice and audio reaches transcribe, so its
\* 'Unsupported file type' branch runs only here.
NextDirect ==
  \E t \in Tasks : Step(t) \/ InvokeTranscribe(t) \/ SendUnsupportedReturn(t)

SpecDirect == Init /\ [][NextDirect]_vars


\* ------------------------------------------------- reading the logs
Idx(t) == 1..Len(log[t])
Gated == {"reset", "image", "transcribe", "prompt"}
BackendOps == {"reset_chat_history", "generate_image", "transcribe", "get_chat_response"}
FetchOps == {"get_file", "download"}
ScratchOps == {"download", "from_ogg", "export", "transcribe", "remove"}
OutboundOps == {"send_message", "reply_text", "send_photo", "send_chat_action"}
\* pc values of a handler past is_allowed
BodyCalls == (SyncCalls \cup AwaitedCalls) \ {"get_member", "send_disallowed", "help_reply"}

OpsAt(t, ops) == {i \in Idx(t) : log[t][i].op \in ops}
ReturnedAt(t, res) == {i \in Idx(t) : log[t][i].op = "is_allowed" /\ log[t][i].res = res}

IsDisallowedSend(t, e) ==
  /\ e.op = "send_message"
  /\ e.arg = disallowed_message
  /\ e.opt = "no_preview"
  /\ e.chat = ev[t].chat.id

\* C1: for a reset, image, voice/audio or free-text event for which is_allowed
\* returned False, nothing but membership queries precedes that return, and
\* after it the handler only sends the fixed disallowed message, once, with
\* link previews disabled: no backend call, no attachment fetch, no scratch
\* file, no presence indicator, and the handler ends right after that send.
C1_DeniedOnlySendsDisallowed ==
  \A t \in Tasks : \A i \in ReturnedAt(t, "False") :
    /\ handler[t] \in Gated
    /\ pc[t] \in {"send_disallowed", "done", "raised"}
    /\ \A j \in Idx(t) : j < i => log[t][j].op = "get_member"
    /\ \A j \in Idx(t) : j > i =>
         \/ j = i + 1 /\ IsDisallowedSend(t, log[t][j])
         \/ j = i + 2 /\ log[t][j].op = "error_handler" /\ log[t][i + 1].res = "raise"
    /\ pc[t] = "send_disallowed" <=> Len(log[t]) = i
    /\ pc[t] = "done" <=> (Len(log[t]) = i + 1 /\ log[t][i + 1].res = "ok")
    /\ OpsAt(t, BackendOps \cup FetchOps \cup ScratchOps \cup {"send_chat_action", "send_photo"}) = {}
    /\ \A f \in files : f[2] # t

C1_Witness ==
  \E t \in Tasks :
    /\ pc[t] = "done"
    /\ handler[t] = "transcribe"
    /\ ReturnedAt(t, "False") # {}
    /\ \E i \in Idx(t) : IsDisallowedSend(t, log[t][i]) /\ log[t][i].res = "ok"

\* What C2 asks of a task: is_allowed was evaluated once, and returned before
\* any message, presence indicator, fetch or backend call of the task.
EvaluatedOnceFirst(t) ==
  /\ Cardinality(OpsAt(t, {"is_allowed"})) = 1
  /\ \A i \in OpsAt(t, OutboundOps \cup FetchOps \cup BackendOps \cup ScratchOps) :
       \E j \in ReturnedAt(t, "True") \cup ReturnedAt(t, "False") : j < i

\* C2 as claimed: every event dispatched to a handler, /help and /start
\* included, has is_allowed evaluated exactly once, before any outbound effect.
C2_Original ==
  \A t \in Tasks :
    (handler[t] # "none" /\ pc[t] \in {"done", "raised"}) => EvaluatedOnceFirst(t)

\* C2 as amended: every event dispatched to reset, image, transcribe or prompt
\* has is_allowed evaluated exactly once, and that evaluation returns before
\* any outbound message, presence indicator, attachment fetch or backend call
\* of the event; for /help and /start is_allowed is not evaluated at all.
C2_GatedEvaluatedOnceFirst ==
  \A t \in Tasks :
    /\ handler[t] \in Gated =>
         /\ Cardinality(OpsAt(t, {"is_allowed"})) <= 1
         /\ \A i \in OpsAt(t, OutboundOps \cup FetchOps \cup BackendOps \cup ScratchOps) :
              \E j \in ReturnedAt(t, "True") \cup ReturnedAt(t, "False") : j < i
         /\ pc[t] \in BodyCalls \cup {"send_disallowed"} => OpsAt(t, {"is_allowed"}) # {}
         /\ pc[t] \in {"done", "raised"} => EvaluatedOnceFirst(t)
    /\ handler[t] = "help" => OpsAt(t, {"is_allowed", "get_member"}) = {}

C2_Witness ==
  \E t \in Tasks :
    /\ pc[t] = "done"
    /\ handler[t] = "reset"
    /\ log[t][1].op = "get_member"
    /\ ReturnedAt(t, "True") # {}
    /\ OpsAt(t, {"reset_chat_history"}) # {}


\* C3: when an authorised transcribe call has returned or raised, no scratch
\* file it wrote (<unique_id>.ogg, <unique_id>.mp3) is left in local storage,
\* whichever step failed.
C3_ScratchFilesRemoved ==
  \A t \in Tasks :
    (handler[t] = "transcribe" /\ pc[t] \in {"done", "raised"}) =>
      \A f \in files : f[2] # t

C3_Witness ==
  \E t \in Tasks :
    /\ handler[t] = "transcribe"
    /\ pc[t] = "raised"
    /\ \E i \in OpsAt(t, {"transcribe"}) : log[t][i].res = "raise"
    /\ \E i, j \in OpsAt(t, {"remove"}) :
         /\ log[t][i].arg = ev[t].msg.voice \o ".mp3"
         /\ log[t][j].arg = ev[t].msg.voice \o ".ogg"

\* C4 as claimed: a membership query that raises counts as "not a member":
\* the scan goes on to the next allow-listed id or, after the last one,
\* is_allowed returns normally.
C4_FailedQueryIsNotMember ==
  \A t \in Tasks : \A i \in OpsAt(t, {"get_member"}) :
    log[t][i].res = "raise" =>
      /\ i < Len(log[t])
      /\ log[t][i + 1].op \in {"get_member", "is_allowed"}
      /\ log[t][i + 1].res # "raise"

\* x is one of the comma-separated elements of the character sequence s
ElementOf(x, s) ==
  /\ \A k \in 1..Len(x) : x[k] # ","
  /\ \E i \in 1..(Len(s) + 1) :
       /\ i = 1 \/ s[i - 1] = ","
       /\ i + Len(x) - 1 <= Len(s)
       /\ \A k \in 1..Len(x) : s[i + k - 1] = x[k]
       /\ i + Len(x) = Len(s) + 1 \/ s[i + Len(x)] = ","

\* C5: for a sender whose id is an element of a non-wildcard comma-separated
\* allow-list, is_allowed returns True, in direct and group chats alike, and
\* no membership query is issued.
C5_ListedSenderAllowed ==
  \A t \in Tasks :
    ( /\ handler[t] \in Gated
      /\ config # <<"*">>
      /\ ElementOf(Str(ev[t].sender), config) ) =>
        /\ ReturnedAt(t, "True") = {1}
        /\ OpsAt(t, {"get_member"}) = {}
        /\ pc[t] \in BodyCalls \cup {"done", "raised"}

C5_Witness ==
  \E t \in Tasks :
    /\ handler[t] = "prompt"
    /\ pc[t] = "done"
    /\ ev[t].sender = 11
    /\ ev[t].chat.type = "supergroup"
    /\ config = <<",", "1", "1">>
    /\ ReturnedAt(t, "True") = {1}

\* C6: with the wildcard allow-list '*', is_allowed returns True for every
\* event, whatever the sender and the chat, and no membership query is issued.
C6_WildcardAllowsAll ==
  \A t \in Tasks :
    (handler[t] \in Gated /\ config = <<"*">>) =>
      /\ \E i \in Idx(t) : i = 1 /\ log[t][i].op = "is_allowed" /\ log[t][i].res = "True"
      /\ \A i \in Idx(t) : log[t][i].op # "get_member"
      /\ pc[t] \notin {"get_member", "send_disallowed"}

C6_Witness ==
  \E t \in Tasks :
    /\ config = <<"*">>
    /\ handler[t] = "image"
    /\ pc[t] = "done"
    /\ ev[t].sender = 2
    /\ ev[t].chat.type = "group"
    /\ OpsAt(t, {"send_photo"}) # {}

NonMemberStatuses == {"restricted", "left", "kicked"}

\* C7: in a group chat, with a non-wildcard allow-list the sender is not in,
\* when every membership query answered a non-member status, is_allowed
\* returned False after one query per allow-listed id and the handler sent the
\* disallowed message exactly once.
C7_GroupWithoutMemberDenied ==
  \A t \in Tasks :
    ( /\ handler[t] \in Gated
      /\ pc[t] \in {"done", "raised"}
      /\ config # <<"*">>
      /\ ev[t].chat.type \in {"group", "supergroup"}
      /\ ~ElementOf(Str(ev[t].sender), config)
      /\ \A i \in OpsAt(t, {"get_member"}) : log[t][i].res \in NonMemberStatuses ) =>
        /\ Cardinality(ReturnedAt(t, "False")) = 1
        /\ ReturnedAt(t, "True") = {}
        /\ Cardinality(OpsAt(t, {"get_member"})) = Len(Split(config))
        /\ Cardinality({i \in Idx(t) : IsDisallowedSend(t, log[t][i])}) = 1
        /\ Cardinality(OpsAt(t, {"send_message"})) = 1

C7_Witness ==
  \E t \in Tasks :
    /\ handler[t] = "prompt"
    /\ pc[t] = "done"
    /\ config = <<"1", ",", "1">>
    /\ ev[t].sender = 2
    /\ ev[t].chat.type = "group"
    /\ Cardinality(OpsAt(t, {"get_member"})) = 2
    /\ \A i \in OpsAt(t, {"get_member"}) : log[t][i].res \in NonMemberStatuses
    /\ \E i \in Idx(t) : IsDisallowedSend(t, log[t][i]) /\ log[t][i].res = "ok"

\* C8 as claimed: when get_chat_response raises for an authorised free-text
\* event, the handler replies to the original message with the error text.
C8_ChatFailureReplied ==
  \A t \in Tasks : \A i \in OpsAt(t, {"get_chat_response"}) :
    (log[t][i].res = "raise" /\ pc[t] \in {"done", "raised"}) =>
      \E j \in OpsAt(t, {"send_message"}) : j > i /\ log[t][j].reply = ev[t].mid

Attachment(t) == IF ev[t].msg.voice # "" THEN ev[t].msg.voice ELSE ev[t].msg.audio
OwnPaths(t) == {Attachment(t) \o ".ogg", Attachment(t) \o ".mp3"}

\* C9: of two transcription requests in flight whose attachments have
\* different unique ids, each reads, writes and deletes only <its id>.ogg and
\* <its id>.mp3, and never a file the other one wrote.
C9_DistinctIdsDistinctFiles ==
  \A t, u \in Tasks :
    ( /\ t # u
      /\ handler[t] = "transcribe" /\ handler[u] = "transcribe"
      /\ Attachment(t) # Attachment(u) ) =>
        /\ \A i \in OpsAt(t, ScratchOps) :
             log[t][i].arg \in OwnPaths(t) /\ log[t][i].who \in {0, t}
        /\ \A f \in files : f[2] = t => f[1] \in OwnPaths(t)

C9_Witness ==
  \E t, u \in Tasks :
    /\ t # u
    /\ handler[t] = "transcribe" /\ handler[u] = "transcribe"
    /\ Attachment(t) # Attachment(u)
    /\ pc[t] = "send_transcript" /\ pc[u] = "send_transcript"
    /\ Cardinality(files) >= 3

\* calls that leave the process: the transport, the AI backend, the transcoder
StallableCalls == (SyncCalls \cup AwaitedCalls) \ {"reset_chat_history"}

\* C10 as claimed: while one task is inside an external call, every other
\* task that has not ended can take its next step.
C10_StallStallsOnlyItsTask ==
  \A t, u \in Tasks :
    ( /\ t # u
      /\ pc[t] \in StallableCalls
      /\ pc[u] \notin Ended \cup {"idle"} ) => ENABLED Step(u)


\* the handler C11 names for a message; unknown: what it names for a command
\* that is none of /help, /start, /reset, /image
NamedHandler(m, unknown) ==
  IF m.voice # "" \/ m.audio # "" THEN "transcribe"
  ELSE IF m.text = <<>> THEN "none"
  ELSE CASE m.text[1] \in {"/help", "/start"} -> "help"
         [] m.text[1] = "/reset" -> "reset"
         [] m.text[1] = "/image" -> "image"
         [] m.text[1] = "/foo" -> unknown
         [] OTHER -> "prompt"

Dispatched(t) == pc[t] \notin {"idle", "queued"}

\* C11 as claimed: every event goes to exactly one handler, a command that is
\* none of the four known ones going to the chat-prompt handler, and no text
\* event is left unhandled.
C11_Original ==
  \A t \in Tasks : Dispatched(t) =>
    /\ handler[t] = NamedHandler(ev[t].msg, "prompt")
    /\ handler[t] # "none"

\* C11 as amended: /help and /start go to help, /reset to reset, /image to
\* image, a voice or audio attachment to transcribe and any other text that is
\* not a command to prompt; a command that is none of the four known ones is
\* given to no handler; no event is accepted by two registered handlers.
C11_OneHandlerPerEvent ==
  \A t \in Tasks : Dispatched(t) =>
    /\ handler[t] = NamedHandler(ev[t].msg, "none")
    /\ Cardinality(Matching(ev[t].msg)) = IF handler[t] = "none" THEN 0 ELSE 1
    /\ pc[t] = "unhandled" <=> handler[t] = "none"
    /\ handler[t] = "none" => log[t] = <<>>

C11_Witness ==
  \E t \in Tasks :
    /\ ev[t].msg.text = <<"hello">>
    /\ handler[t] = "prompt"
    /\ pc[t] = "done"
    /\ OpsAt(t, {"get_chat_response"}) # {}


\* what follows the command (and the bot's name, when the command is written
\* /image@botname) in a command message, without surrounding blanks
CommandArgs(m) ==
  LET rest == IF Len(m.text) >= 2 /\ m.text[2] = "@bot"
              THEN SubSeq(m.text, 3, Len(m.text))
              ELSE SubSeq(m.text, 2, Len(m.text))
      blanks == {i \in 1..Len(rest) : rest[i] = " "}
  IN  IF blanks = 1..Len(rest) THEN <<>> ELSE rest

\* C12 as claimed: an authorised /image event whose prompt is empty or blank,
\* also when the command is written /image@botname, makes no image-generation
\* call and no upload-photo indicator and gets one request-for-prompt message.
C12_EmptyPromptNoBackend ==
  \A t \in Tasks :
    ( /\ handler[t] = "image"
      /\ ReturnedAt(t, "True") # {}
      /\ CommandArgs(ev[t].msg) = <<>> ) =>
        /\ pc[t] \in {"send_need_prompt", "done", "raised"}
        /\ OpsAt(t, {"generate_image", "send_chat_action", "send_photo"}) = {}
        /\ pc[t] = "done" =>
             Cardinality({i \in OpsAt(t, {"send_message"}) :
                            log[t][i].arg = "Please provide a prompt!"}) = 1

PipelineOps == {"get_file", "download", "from_ogg", "export", "transcribe"}
RaisedAt(t, ops) == {i \in OpsAt(t, ops) : log[t][i].res = "raise"}

\* C13: when generate_image raises for an authorised /image event, the handler
\* makes one send of 'Failed to generate image: <error text>' addressed as a
\* reply to the original message, sends no photo and calls the backend once.
C13_ImageFailureReplied ==
  \A t \in Tasks : \A i \in RaisedAt(t, {"generate_image"}) :
    /\ handler[t] = "image"
    /\ log[t][i].arg # ""
    /\ pc[t] \in {"send_image_failed", "done", "raised"}
    /\ OpsAt(t, {"send_photo"}) = {}
    /\ Cardinality(OpsAt(t, {"generate_image"})) = 1
    /\ pc[t] = "send_image_failed" <=> Len(log[t]) = i
    /\ Len(log[t]) > i =>
         /\ log[t][i + 1].op = "send_message"
         /\ log[t][i + 1].arg = "Failed to generate image: generate_image failed"
         /\ log[t][i + 1].reply = ev[t].mid
         /\ log[t][i + 1].chat = ev[t].chat.id
         /\ OpsAt(t, {"send_message"}) = {i + 1}
         /\ pc[t] = "done" <=> log[t][i + 1].res = "ok"

C13_Witness ==
  \E t \in Tasks :
    /\ pc[t] = "done"
    /\ RaisedAt(t, {"generate_image"}) # {}
    /\ log[t][Len(log[t])].op = "send_message"
    /\ log[t][Len(log[t])].res = "ok"

\* C14: when the fetch, the transcode or the transcription of an authorised
\* voice or audio event raises, no later pipeline step runs, no step runs a
\* second time, and the handler makes one send of 'Failed to transcribe text:
\* <error text>' addressed as a reply to the original message.
C14_PipelineFailureReplied ==
  \A t \in Tasks : \A i \in RaisedAt(t, PipelineOps) :
    /\ handler[t] = "transcribe"
    /\ \A j \in OpsAt(t, PipelineOps) : j <= i
    /\ \A j, k \in OpsAt(t, PipelineOps) : log[t][j].op = log[t][k].op => j = k
    /\ pc[t] \in {"send_transcribe_failed", "done", "raised"}
    /\ pc[t] = "send_transcribe_failed" <=> Len(log[t]) = i
    /\ Len(log[t]) > i =>
         /\ log[t][i + 1].op = "send_message"
         /\ log[t][i + 1].arg = "Failed to transcribe text: " \o log[t][i].op \o " failed"
         /\ log[t][i + 1].reply = ev[t].mid
         /\ log[t][i + 1].chat = ev[t].chat.id
         /\ OpsAt(t, {"send_message"}) = {i + 1}
         /\ pc[t] = "done" <=> log[t][i + 1].res = "ok"

C14_Witness ==
  \E t \in Tasks :
    /\ pc[t] = "done"
    /\ ev[t].msg.voice # ""
    /\ \E i \in RaisedAt(t, {"export"}) :
         log[t][i + 1].op = "send_message" /\ log[t][i + 1].res = "ok"

\* C15: an authorised update given to transcribe that carries neither a voice
\* nor an audio attachment gets one 'Unsupported file type' message and no
\* pipeline work: no presence indicator, no fetch, no scratch file, no
\* transcode and no transcription call.
C15_UnsupportedNoPipeline ==
  \A t \in Tasks : \A i \in ReturnedAt(t, "True") :
    (handler[t] = "transcribe" /\ ev[t].msg.voice = "" /\ ev[t].msg.audio = "") =>
      /\ pc[t] \in {"send_unsupported", "done", "raised"}
      /\ OpsAt(t, {"send_chat_action"} \cup FetchOps \cup ScratchOps \cup BackendOps) = {}
      /\ \A f \in files : f[2] # t
      /\ pc[t] = "send_unsupported" <=> Len(log[t]) = i
      /\ Len(log[t]) > i =>
           /\ log[t][i + 1].op = "send_message"
           /\ log[t][i + 1].arg = "Unsupported file type"
           /\ log[t][i + 1].chat = ev[t].chat.id
           /\ OpsAt(t, {"send_message"}) = {i + 1}
           /\ pc[t] = "done" <=> log[t][i + 1].res = "ok"

C15_Witness ==
  \E t \in Tasks :
    /\ handler[t] = "transcribe"
    /\ ev[t].msg.voice = "" /\ ev[t].msg.audio = ""
    /\ pc[t] = "done"
    /\ \E i \in OpsAt(t, {"send_message"}) :
         log[t][i].arg = "Unsupported file type" /\ log[t][i].res = "ok"


\* what the log of an authorised /reset task must look like
ResetLogOk(t) ==
  \A i \in ReturnedAt(t, "True") :
    /\ pc[t] \in {"reset_chat_history", "send_done", "done", "raised"}
    /\ pc[t] = "reset_chat_history" <=> Len(log[t]) = i
    /\ Len(log[t]) > i =>
         /\ log[t][i + 1].op = "reset_chat_history"
         /\ log[t][i + 1].chat = ev[t].chat.id
         /\ OpsAt(t, {"reset_chat_history"}) = {i + 1}
         /\ pc[t] = "send_done" <=> (Len(log[t]) = i + 1 /\ log[t][i + 1].res = "ok")
    /\ pc[t] = "done" =>
         /\ Len(log[t]) = i + 2
         /\ log[t][i + 1].res = "ok"
         /\ log[t][i + 2].op = "send_message"
         /\ log[t][i + 2].arg = "Done!"
         /\ log[t][i + 2].chat = ev[t].chat.id
         /\ log[t][i + 2].res = "ok"
    /\ OpsAt(t, {"send_message"}) \subseteq {i + 2}

\* the step in which task t's reset_chat_history call returns
ResetReturns(t) == pc[t] = "reset_chat_history" /\ pc'[t] # "reset_chat_history"

\* C16: an authorised /reset event calls reset_chat_history exactly once, with
\* the event's chat id and no other id, and then sends exactly one 'Done!' to
\* that chat; the call clears that chat's conversation and leaves the
\* conversation of every other chat as it was.
C16_ResetOnlyOwnConversation ==
  /\ [](\A t \in Tasks : handler[t] = "reset" => ResetLogOk(t))
  /\ [][\A t \in Tasks : ResetReturns(t) =>
          /\ \A c \in ChatIds \ {ev[t].chat.id} : history'[c] = history[c]
          /\ pc'[t] = "send_done" => history'[ev[t].chat.id] = 0]_vars

C16_Witness ==
  \E t, u \in Tasks :
    /\ handler[t] = "reset" /\ pc[t] = "done"
    /\ handler[u] = "prompt" /\ pc[u] = "done"
    /\ ev[t].chat.id # ev[u].chat.id
    /\ history[ev[t].chat.id] = 0
    /\ history[ev[u].chat.id] = 1


Queries(t) == OpsAt(t, {"get_member"})

\* the membership scan of task t without the bound on queries per id
ScanOk(t) ==
  /\ (Queries(t) # {} \/ pc[t] = "get_member") =>
       /\ config # <<"*">>
       /\ ~ElementOf(Str(ev[t].sender), config)
       /\ ev[t].chat.type \in {"group", "supergroup"}
       /\ handler[t] \in Gated
  /\ ev[t].chat.type = "private" => Queries(t) = {} /\ pc[t] # "get_member"
  \* one at a time, in allow-list order, before anything else
  /\ Queries(t) = 1..Cardinality(Queries(t))
  /\ \A i \in Queries(t) : log[t][i].arg = Join(Split(config)[i])
  /\ pc[t] = "get_member" =>
       /\ Len(log[t]) = Cardinality(Queries(t))
       /\ idx[t] = Len(log[t]) + 1
       /\ idx[t] <= Len(Split(config))
  \* none after the first that reports a member status
  /\ \A i \in Queries(t) :
       log[t][i].res \in {"administrator", "member", "creator"} =>
         /\ \A j \in Queries(t) : j <= i
         /\ pc[t] # "get_member"

\* C17 as claimed: membership queries are issued only for a non-wildcard
\* allow-list, a sender not in it and a group chat, one at a time in allow-list
\* order, none after the first member found, and at most one per allow-listed
\* id.
C17_Original ==
  \A t \in Tasks :
    /\ ScanOk(t)
    /\ \A i, j \in Queries(t) : log[t][i].arg = log[t][j].arg => i = j

\* C17 as amended: as claimed, with at most one query per entry of the
\* allow-list (an id the list holds twice is queried twice), so never more
\* queries than the list has entries.
C17_BoundedSequentialScan ==
  \A t \in Tasks :
    /\ ScanOk(t)
    /\ Cardinality(Queries(t)) <= Len(Split(config))

C17_Witness ==
  \E t \in Tasks :
    /\ config = <<"1", ",", "1">>
    /\ pc[t] = "done"
    /\ Cardinality(Queries(t)) = 2
    /\ log[t][1].res = "left"
    /\ log[t][2].res = "member"
    /\ ReturnedAt(t, "True") = {3}

\* the pipeline steps C18 names for task t's attachment, as <<call, path>>
NamedPipeline(t) ==
  IF ev[t].msg.voice # ""
  THEN << <<"get_file", ev[t].msg.voice>>,
          <<"download", ev[t].msg.voice \o ".ogg">>,
          <<"from_ogg", ev[t].msg.voice \o ".ogg">>,
          <<"export", ev[t].msg.voice \o ".mp3">>,
          <<"transcribe", ev[t].msg.voice \o ".mp3">> >>
  ELSE << <<"get_file", ev[t].msg.audio>>,
          <<"download", ev[t].msg.audio \o ".mp3">>,
          <<"transcribe", ev[t].msg.audio \o ".mp3">> >>

\* the k-th pipeline call task t has completed
PipelineAt(t, k) ==
  CHOOSE i \in OpsAt(t, PipelineOps) :
    Cardinality({j \in OpsAt(t, PipelineOps) : j <= i}) = k

\* C18: the pipeline calls of transcribe run in the named order, each after
\* the one before it returned: for a voice note fetch to <id>.ogg, transcode
\* to <id>.mp3, transcribe <id>.mp3; for an audio attachment fetch to <id>.mp3
\* and transcribe it, with no transcode and no <id>.ogg written by the task.
C18_PipelineOrder ==
  \A t \in Tasks : handler[t] = "transcribe" =>
    LET n == Cardinality(OpsAt(t, PipelineOps))
    IN  /\ n <= Len(NamedPipeline(t))
        /\ \A k \in 1..n :
             /\ log[t][PipelineAt(t, k)].op = NamedPipeline(t)[k][1]
             /\ log[t][PipelineAt(t, k)].arg = NamedPipeline(t)[k][2]
             /\ k < n => log[t][PipelineAt(t, k)].res = "ok"
        /\ pc[t] \in {"from_ogg", "export", "openai_transcribe"} =>
             /\ n < Len(NamedPipeline(t))
             /\ IF pc[t] = "openai_transcribe" THEN NamedPipeline(t)[n + 1][1] = "transcribe"
                ELSE NamedPipeline(t)[n + 1][1] = pc[t]
             /\ log[t][Len(log[t])].res = "ok"
        /\ ev[t].msg.voice = "" =>
             \A f \in files : f[2] = t => f[1] = ev[t].msg.audio \o ".mp3"

C18_Witness ==
  \E t, u \in Tasks :
    /\ t # u
    /\ ev[t].msg.voice # "" /\ pc[t] = "send_transcript"
    /\ Cardinality(OpsAt(t, PipelineOps)) = 5
    /\ ev[u].msg.audio # "" /\ pc[u] = "done"
    /\ Cardinality(OpsAt(u, PipelineOps)) = 3
    /\ \E i \in OpsAt(u, {"send_message"}) : log[u][i].arg = "transcript"


\* task u's transcription has returned a transcript
Transcribed(u) == \E i \in OpsAt(u, {"transcribe"}) : log[u][i].res = "ok"

\* C19: no step of one request (its download, its transcode or its
\* finally-cleanup) deletes or overwrites a scratch file that another request
\* in flight has written and has not yet transcribed, also when both
\* attachments have the same unique id.
C19_NoCrossRequestClobber ==
  [][\A t, u \in Tasks :
       (t # u /\ pc'[t] # pc[t]) =>
         \A f \in files \ files' :
           ~(/\ f[2] = u
             /\ handler[u] = "transcribe"
             /\ pc[u] \notin Ended
             /\ ~Transcribed(u))]_vars

Delivered(t) ==
  {i \in OpsAt(t, {"send_message", "reply_text", "send_photo"}) : log[t][i].res = "ok"}

\* C20: every event yields at most one backend call and at most one
\* delivered outbound message (chat actions not counted); a success reply and
\* a failure reply of the same event are never both delivered.
C20_AtMostOneCallOneReply ==
  \A t \in Tasks :
    /\ Cardinality(OpsAt(t, BackendOps)) <= 1
    /\ Cardinality(Delivered(t)) <= 1

C20_Witness ==
  \E t \in Tasks :
    /\ handler[t] = "image" /\ pc[t] = "done"
    /\ \E i \in OpsAt(t, {"generate_image"}) : log[t][i].res = "ok"
    /\ RaisedAt(t, {"send_photo"}) # {}
    /\ \E i \in Delivered(t) : log[t][i].arg = "Failed to generate image: " \o err[t]

====
